---- MODULE Spec2Model ----
(***************************************************************************)
(* Model of the household power-consumption tracker in                     *)
(* "src/BEE PROJECT/app.py": the Appliance and DailyConsumption tables,    *)
(* the request handlers that write them (appliance_setup, delete_appliance,*)
(* daily_input) and the two report handlers (monthly_results,              *)
(* daily_analysis).                                                        *)
(*                                                                         *)
(* Units.  power_watts and hours_used are floats in the program; here they *)
(* are integers, and consumption_kwh is kept in watt-hours (kWh * 1000) so *)
(* that (power_watts * hours_used) / 1000 is exact.  Floating-point        *)
(* rounding is outside the model.                                          *)
(*                                                                         *)
(* Dates.  A date string "YYYY-MM-DD" is the pair <<"YYYY-MM", day>>; the  *)
(* SQL filter  date LIKE "<month>-%"  compares the first component.        *)
(***************************************************************************)
EXTENDS Integers, Sequences, FiniteSets, TLC

\* ------------------------------------------------------------------ bounds
\* Number of requests a behaviour receives (the handlers' guard on served).
MaxRequests == 4

\* Inputs the requests are drawn from.  float() accepts any number: Powers
\* holds a non-positive value, Hours the 0 a missing form field defaults to.
Names == {"Fridge", "AC"}
Powers == {0, 2}
Hours == {0, 1, 2}
Dates == {<<"2024-06", 1>>, <<"2024-06", 2>>, <<"2024-07", 1>>}
Months == {"2024-06", "2024-07"}
Procs == {1, 2}

VARIABLES
    appliances,     \* table Appliance: set of [id, name, power_watts]
    consumptions,   \* table DailyConsumption: set of [id, date, appliance_id, hours_used, consumption_kwh]
    request,        \* the request handled last
    response,       \* what its handler returned
    session,        \* per worker: the position and pending writes of a daily_input POST in flight
    served          \* number of requests received so far

vars == <<appliances, consumptions, request, response, session, served>>

\* ------------------------------------------------------------- persistence
RECURSIVE MaxOf(_)
MaxOf(S) ==
    IF S = {} THEN 0
    ELSE LET x == CHOOSE v \in S : TRUE
             m == MaxOf(S \ {x})
         IN IF x > m THEN x ELSE m

\* An Integer primary key: the store assigns the largest id in the table plus one.
NextId(table) == MaxOf({r.id : r \in table}) + 1

\* Query.all() without ORDER BY: rows in id order.
RECURSIVE SeqById(_)
SeqById(S) ==
    IF S = {} THEN <<>>
    ELSE LET r == CHOOSE x \in S : \A y \in S : x.id <= y.id
         IN <<r>> \o SeqById(S \ {r})

ApplianceIds == {a.id : a \in appliances}

\* date LIKE "<month>-%"
DateLike(date, month) == date[1] = month

\* filter_by(date=..., appliance_id=...).first() against a table: the row or "none"
First(rows, date, appliance_id) ==
    LET hit == {dc \in rows : dc.date = date /\ dc.appliance_id = appliance_id}
    IN IF hit = {} THEN [id |-> 0] ELSE SeqById(hit)[1]

ConsumptionKwh(power_watts, hours_used) == power_watts * hours_used

Redirect(to) == [kind |-> "redirect", to |-> to]

Idle == [pc |-> "idle"]

\* A request is received.
Receive(r) ==
    /\ served < MaxRequests
    /\ served' = served + 1
    /\ request' = r

\* --------------------------------------------------------- appliance_setup
ApplianceSetupPost(name, power_watts) ==
    /\ Receive([kind |-> "appliance_setup", name |-> name, power_watts |-> power_watts])
    /\ appliances' = appliances \cup
          {[id |-> NextId(appliances), name |-> name, power_watts |-> power_watts]}
    /\ response' = Redirect("appliance_setup")
    /\ UNCHANGED <<consumptions, session>>

\* -------------------------------------------------------- delete_appliance
\* Mutants of Cascade: a relationship without cascade, and a delete that empties the table.
CascadeNone(rows, appliance_id) == rows

CascadeEverything(rows, appliance_id) == {}

\* cascade="all, delete-orphan": the rows of the deleted appliance go with it.
Cascade(rows, appliance_id) == {dc \in rows : dc.appliance_id # appliance_id}

DeleteAppliance(appliance_id) ==
    /\ Receive([kind |-> "delete_appliance", appliance_id |-> appliance_id])
    /\ IF appliance_id \in ApplianceIds
       THEN /\ appliances' = {a \in appliances : a.id # appliance_id}
            /\ consumptions' = Cascade(consumptions, appliance_id)
            /\ response' = Redirect("appliance_setup")
       ELSE /\ response' = [kind |-> "not_found"]
            /\ UNCHANGED <<appliances, consumptions>>
    /\ UNCHANGED session

\* ------------------------------------------------------------- daily_input
NewRow(rows, appliance, date_str, hours_used) ==
    [id |-> NextId(rows), date |-> date_str, appliance_id |-> appliance.id,
     hours_used |-> hours_used,
     consumption_kwh |-> ConsumptionKwh(appliance.power_watts, hours_used)]

\* Mutant of Upsert: the existence query is dropped, every submission inserts.
UpsertInsertOnly(rows, appliance, date_str, hours_used) ==
    IF hours_used > 0 THEN rows \cup {NewRow(rows, appliance, date_str, hours_used)}
    ELSE rows

\* Mutant of Upsert: an existing row is left as it is.
UpsertKeepExisting(rows, appliance, date_str, hours_used) ==
    IF hours_used > 0 /\ First(rows, date_str, appliance.id).id = 0
    THEN rows \cup {NewRow(rows, appliance, date_str, hours_used)}
    ELSE rows

\* Mutant of Upsert: the update branch forgets existing.consumption_kwh.
UpsertStaleKwh(rows, appliance, date_str, hours_used) ==
    IF hours_used > 0
    THEN LET existing == First(rows, date_str, appliance.id)
         IN IF existing.id # 0
            THEN (rows \ {existing}) \cup {[existing EXCEPT !.hours_used = hours_used]}
            ELSE rows \cup {NewRow(rows, appliance, date_str, hours_used)}
    ELSE rows

\* One pass of the loop body for one appliance.
Upsert(rows, appliance, date_str, hours_used) ==
    IF hours_used > 0
    THEN LET consumption_kwh == ConsumptionKwh(appliance.power_watts, hours_used)
             existing == First(rows, date_str, appliance.id)
         IN IF existing.id # 0
            THEN (rows \ {existing}) \cup
                   {[existing EXCEPT !.hours_used = hours_used,
                                     !.consumption_kwh = consumption_kwh]}
            ELSE rows \cup {NewRow(rows, appliance, date_str, hours_used)}
    ELSE rows

RECURSIVE UpsertAll(_, _, _, _, _)
UpsertAll(rows, apps, i, date_str, hours) ==
    IF i > Len(apps) THEN rows
    ELSE UpsertAll(Upsert(rows, apps[i], date_str, hours[apps[i].id]),
                   apps, i + 1, date_str, hours)

DailyInputPost(date_str, hours) ==
    /\ Receive([kind |-> "daily_input", date |-> date_str, hours |-> hours])
    /\ IF appliances = {}
       THEN /\ response' = Redirect("appliance_setup")
            /\ UNCHANGED consumptions
       ELSE /\ consumptions' = UpsertAll(consumptions, SeqById(appliances), 1, date_str, hours)
            /\ response' = Redirect("daily_input")
    /\ UNCHANGED <<appliances, session>>

\* ------------------------------------------------------------------ reports
\* appliance_map[dc.appliance_id].name
ApplianceName(appliance_id) ==
    (CHOOSE a \in appliances : a.id = appliance_id).name

\* The inner loop over one day's rows that keeps the maximum.
RECURSIVE DayMaxFrom(_, _, _)
DayMaxFrom(day_consumptions, i, best) ==
    IF i > Len(day_consumptions) THEN best
    ELSE LET dc == day_consumptions[i]
         IN DayMaxFrom(day_consumptions, i + 1,
                       IF dc.consumption_kwh > best[2]
                       THEN <<ApplianceName(dc.appliance_id), dc.consumption_kwh>>
                       ELSE best)

DayRows(daily_consumptions, date) ==
    SelectSeq(daily_consumptions, LAMBDA dc : dc.date = date)

DatesOf(daily_consumptions) ==
    {daily_consumptions[i].date : i \in 1..Len(daily_consumptions)}

DailyMaxConsumers(daily_consumptions) ==
    [date \in DatesOf(daily_consumptions) |->
        DayMaxFrom(DayRows(daily_consumptions, date), 1, <<"", 0>>)]

\* Mutant of AddRows: "=" where the loop has "+=".
RECURSIVE AddRowsAssign(_, _, _)
AddRowsAssign(totals, day_consumptions, i) ==
    IF i > Len(day_consumptions) THEN totals
    ELSE LET dc == day_consumptions[i]
             appliance_name == ApplianceName(dc.appliance_id)
         IN AddRowsAssign([totals EXCEPT ![appliance_name] = dc.consumption_kwh],
                          day_consumptions, i + 1)

\* monthly_totals[appliance_name] += dc.consumption_kwh, for one day's rows
RECURSIVE AddRows(_, _, _)
AddRows(totals, day_consumptions, i) ==
    IF i > Len(day_consumptions) THEN totals
    ELSE LET dc == day_consumptions[i]
             appliance_name == ApplianceName(dc.appliance_id)
         IN AddRows([totals EXCEPT ![appliance_name] = @ + dc.consumption_kwh],
                    day_consumptions, i + 1)

\* the outer loop over the set of dates
RECURSIVE AddDates(_, _, _)
AddDates(totals, dates, daily_consumptions) ==
    IF dates = {} THEN totals
    ELSE LET date == CHOOSE d \in dates : TRUE
         IN AddDates(AddRows(totals, DayRows(daily_consumptions, date), 1),
                     dates \ {date}, daily_consumptions)

MonthlyTotals(daily_consumptions) ==
    AddDates([n \in {a.name : a \in appliances} |-> 0],
             DatesOf(daily_consumptions), daily_consumptions)

\* sum(monthly_totals.values())
RECURSIVE SumValues(_)
SumValues(f) ==
    IF DOMAIN f = {} THEN 0
    ELSE LET k == CHOOSE x \in DOMAIN f : TRUE
         IN f[k] + SumValues([x \in DOMAIN f \ {k} |-> f[x]])

\* appliance_days[max_appliance] = appliance_days.get(max_appliance, 0) + 1
ApplianceDays(daily_max_consumers) ==
    [n \in {daily_max_consumers[d][1] : d \in DOMAIN daily_max_consumers} |->
        Cardinality({d \in DOMAIN daily_max_consumers : daily_max_consumers[d][1] = n})]

QueryMonth(month) == SeqById({dc \in consumptions : DateLike(dc.date, month)})

\* appliance_map[...] raises KeyError when a row names no stored appliance
KeyError(daily_consumptions) ==
    \E i \in 1..Len(daily_consumptions) :
        daily_consumptions[i].appliance_id \notin ApplianceIds

MonthlyResults(month) ==
    /\ Receive([kind |-> "monthly_results", month |-> month])
    /\ response' =
         LET daily_consumptions == QueryMonth(month)
         IN IF KeyError(daily_consumptions) THEN [kind |-> "key_error"]
            ELSE LET monthly_totals == MonthlyTotals(daily_consumptions)
                 IN [kind |-> "monthly_results",
                     month |-> month,
                     monthly_totals |-> monthly_totals,
                     daily_max_consumers |-> DailyMaxConsumers(daily_consumptions),
                     total_kwh |-> SumValues(monthly_totals)]
    /\ UNCHANGED <<appliances, consumptions, session>>

DailyAnalysis(month) ==
    /\ Receive([kind |-> "daily_analysis", month |-> month])
    /\ response' =
         LET daily_consumptions == QueryMonth(month)
         IN IF KeyError(daily_consumptions) THEN [kind |-> "key_error"]
            ELSE LET daily_max_consumers == DailyMaxConsumers(daily_consumptions)
                 IN [kind |-> "daily_analysis",
                     month |-> month,
                     daily_max_consumers |-> daily_max_consumers,
                     appliance_days |-> ApplianceDays(daily_max_consumers),
                     total_days |-> Cardinality(DOMAIN daily_max_consumers)]
    /\ UNCHANGED <<appliances, consumptions, session>>

\* ------------------------------------- daily_input POST, step by step
\* The same handler with its existence query, its insert-or-update and its
\* commit as separate steps of a worker, so that two requests can interleave.
\* A worker's session holds its pending writes until the commit; its queries
\* read the committed table (a pending row of the same session never matches a
\* later query of that session: the loop visits each appliance once).
AllIdle == \A p \in Procs : session[p].pc = "idle"

Advance(s) ==
    [s EXCEPT !.i = s.i + 1,
              !.pc = IF s.i + 1 > Len(s.appliances) THEN "commit" ELSE "query"]

\* Lines 96-105: the appliances are read and the form is taken.
DailyInputBegin(p, date_str, hours) ==
    /\ session[p].pc = "idle"
    /\ Receive([kind |-> "daily_input", date |-> date_str, hours |-> hours])
    /\ IF appliances = {}
       THEN /\ response' = Redirect("appliance_setup")
            /\ UNCHANGED session
       ELSE /\ session' = [session EXCEPT ![p] =
                  [pc |-> "query", date |-> date_str, hours |-> hours,
                   appliances |-> SeqById(appliances), i |-> 1,
                   existing |-> 0, pending |-> <<>>]]
            /\ UNCHANGED response
    /\ UNCHANGED <<appliances, consumptions>>

\* Lines 106-114: hours_used is read; when positive, the existence query runs.
DailyInputQuery(p) ==
    /\ session[p].pc = "query"
    /\ LET s == session[p]
           appliance == s.appliances[s.i]
       IN session' = [session EXCEPT ![p] =
             IF s.hours[appliance.id] > 0
             THEN [s EXCEPT !.pc = "write",
                            !.existing = First(consumptions, s.date, appliance.id).id]
             ELSE Advance(s)]
    /\ UNCHANGED <<appliances, consumptions, request, response, served>>

\* Lines 116-126: the row found is changed, or a new row is added to the session.
DailyInputWrite(p) ==
    /\ session[p].pc = "write"
    /\ LET s == session[p]
           appliance == s.appliances[s.i]
           hours_used == s.hours[appliance.id]
           consumption_kwh == ConsumptionKwh(appliance.power_watts, hours_used)
           w == IF s.existing # 0
                THEN [op |-> "update", id |-> s.existing, hours_used |-> hours_used,
                      consumption_kwh |-> consumption_kwh]
                ELSE [op |-> "insert", date |-> s.date, appliance_id |-> appliance.id,
                      hours_used |-> hours_used, consumption_kwh |-> consumption_kwh]
       IN session' = [session EXCEPT ![p] =
             Advance([s EXCEPT !.pending = Append(s.pending, w)])]
    /\ UNCHANGED <<appliances, consumptions, request, response, served>>

\* db.session.commit(): the pending writes reach the table, in order.
RECURSIVE Flush(_, _, _)
Flush(rows, pending, k) ==
    IF k > Len(pending) THEN rows
    ELSE LET w == pending[k]
         IN Flush(IF w.op = "update"
                  THEN {IF dc.id = w.id
                        THEN [dc EXCEPT !.hours_used = w.hours_used,
                                        !.consumption_kwh = w.consumption_kwh]
                        ELSE dc : dc \in rows}
                  ELSE rows \cup {[id |-> NextId(rows), date |-> w.date,
                                   appliance_id |-> w.appliance_id,
                                   hours_used |-> w.hours_used,
                                   consumption_kwh |-> w.consumption_kwh]},
                  pending, k + 1)

\* Lines 128-129.
DailyInputCommit(p) ==
    /\ session[p].pc = "commit"
    /\ consumptions' = Flush(consumptions, session[p].pending, 1)
    /\ session' = [session EXCEPT ![p] = Idle]
    /\ response' = Redirect("daily_input")
    /\ UNCHANGED <<appliances, request, served>>

\* ------------------------------------------------------------ specification
Init ==
    /\ appliances = {}
    /\ consumptions = {}
    /\ request = [kind |-> "none"]
    /\ response = [kind |-> "none"]
    /\ session = [p \in Procs |-> Idle]
    /\ served = 0

Next ==
    \/ \E name \in Names, power_watts \in Powers : ApplianceSetupPost(name, power_watts)
    \/ \E appliance_id \in ApplianceIds \cup {NextId(appliances)} : DeleteAppliance(appliance_id)
    \/ \E date_str \in Dates, hours \in [ApplianceIds -> Hours] : DailyInputPost(date_str, hours)
    \/ \E month \in Months : MonthlyResults(month)
    \/ \E month \in Months : DailyAnalysis(month)

Spec == Init /\ [][Next]_vars

\* Two workers serving daily_input POSTs step by step.  Appliances are created
\* and deleted between requests only.
NextConc ==
    \/ \E name \in Names, power_watts \in Powers :
          AllIdle /\ ApplianceSetupPost(name, power_watts)
    \/ \E appliance_id \in ApplianceIds \cup {NextId(appliances)} :
          AllIdle /\ DeleteAppliance(appliance_id)
    \/ \E p \in Procs, date_str \in Dates, hours \in [ApplianceIds -> Hours] :
          DailyInputBegin(p, date_str, hours)
    \/ \E p \in Procs : DailyInputQuery(p)
    \/ \E p \in Procs : DailyInputWrite(p)
    \/ \E p \in Procs : DailyInputCommit(p)

SpecConc == Init /\ [][NextConc]_vars

\* ------------------------------------------------------------------- claims
RowsOf(rows, date, appliance_id) ==
    {dc \in rows : dc.date = date /\ dc.appliance_id = appliance_id}

\* Every stored appliance has the positive power the data model asks for.
PositivePowers == \A a \in appliances : a.power_watts > 0

RECURSIVE SumKwh(_)
SumKwh(rows) ==
    IF rows = {} THEN 0
    ELSE LET dc == CHOOSE x \in rows : TRUE
         IN dc.consumption_kwh + SumKwh(rows \ {dc})

\* The request handled last was a daily_input POST that submitted positive hours
\* for a row that was already stored: a row inserted after it by an earlier
\* request (one of another date) has a larger id.
OverwrittenBy(dc) ==
    /\ request.kind = "daily_input"
    /\ response = Redirect("daily_input")
    /\ dc.date = request.date
    /\ dc.appliance_id \in DOMAIN request.hours
    /\ request.hours[dc.appliance_id] > 0
    /\ \E later \in consumptions : later.id > dc.id /\ later.date # request.date

\* C1: whatever requests were served one after the other, the store holds at
\* most one DailyConsumption row for any (date, appliance_id) pair.
C1_OneRowPerDateAndAppliance ==
    \A r1, r2 \in consumptions :
        (r1.date = r2.date /\ r1.appliance_id = r2.appliance_id) => r1 = r2

\* C1 witness: a POST met a stored row of its (date, appliance) and the pair
\* still has that one row.
C1_Witness ==
    \E dc \in consumptions :
        /\ OverwrittenBy(dc)
        /\ RowsOf(consumptions, dc.date, dc.appliance_id) = {dc}

\* A daily_input POST for the date of the daily_input POST served just before it.
SecondPostSameDate ==
    /\ request.kind = "daily_input"
    /\ request'.kind = "daily_input"
    /\ served' = served + 1
    /\ request'.date = request.date
    /\ appliances # {}

\* After the step, (date, appliance) has exactly one row, holding these hours.
SingleRowAfter(appliance, date, hours_used) ==
    \E dc \in consumptions' :
        /\ RowsOf(consumptions', date, appliance.id) = {dc}
        /\ dc.hours_used = hours_used
        /\ dc.consumption_kwh = appliance.power_watts * hours_used

C3_ConsumptionIsPowerTimesHours ==
    \A dc \in consumptions : \A a \in appliances :
        a.id = dc.appliance_id =>
            dc.consumption_kwh = a.power_watts * dc.hours_used

\* C3 witness: a row of a powered appliance was overwritten with other hours
\* than a second row of the same appliance holds.
C3_Witness ==
    \E dc, other \in consumptions, a \in appliances :
        /\ OverwrittenBy(dc)
        /\ a.id = dc.appliance_id /\ a.id = other.appliance_id
        /\ a.power_watts = 2
        /\ dc.hours_used = 2 /\ dc.consumption_kwh = 4
        /\ other.hours_used = 1 /\ other.consumption_kwh = 2

\* C4: deleting an existing appliance removes that appliance and every row of
\* it, and leaves every other appliance and every other row as it was.
C4_DeleteCascadesAndNoMore ==
    [][(/\ request'.kind = "delete_appliance"
        /\ served' = served + 1
        /\ request'.appliance_id \in ApplianceIds)
       => /\ appliances' = {a \in appliances : a.id # request'.appliance_id}
          /\ consumptions' =
                {dc \in consumptions : dc.appliance_id # request'.appliance_id}]_vars

\* C4 witness: appliance 1 was deleted with its row (id 1 is gone from the
\* table), appliance 2 and its row are still there.
C4_Witness ==
    /\ request = [kind |-> "delete_appliance", appliance_id |-> 1]
    /\ response = Redirect("appliance_setup")
    /\ ApplianceIds = {2}
    /\ \E dc \in consumptions : dc.id = 2 /\ dc.appliance_id = 2
    /\ \A dc \in consumptions : dc.id # 1

\* C5 as stated: monthly_totals has an entry for every registered appliance,
\* and the entry under an appliance's name is the sum of consumption_kwh over
\* that appliance's own rows of the month.  (Stated for appliances of positive
\* power.)
C5_TotalsPerAppliance ==
    (response.kind = "monthly_results" /\ PositivePowers) =>
        \A a \in appliances :
            /\ a.name \in DOMAIN response.monthly_totals
            /\ response.monthly_totals[a.name] =
                  SumKwh({dc \in consumptions :
                             /\ dc.appliance_id = a.id
                             /\ DateLike(dc.date, response.month)})

\* C6 as stated: for each date D with a row in the month, daily_max_consumers[D]
\* is (name of an appliance with a row on D, that row's consumption_kwh), the
\* value being the greatest of D's rows and the first such row winning a tie.
C6_DailyMaxIsARow ==
    response.kind \in {"monthly_results", "daily_analysis"} =>
        \A date \in {dc.date : dc \in {x \in consumptions : DateLike(x.date, response.month)}} :
            /\ date \in DOMAIN response.daily_max_consumers
            /\ \E dc \in consumptions :
                  /\ dc.date = date
                  /\ response.daily_max_consumers[date] =
                        <<ApplianceName(dc.appliance_id), dc.consumption_kwh>>
                  /\ \A x \in consumptions :
                        x.date = date =>
                            \/ x.consumption_kwh < dc.consumption_kwh
                            \/ (x.consumption_kwh = dc.consumption_kwh /\ dc.id <= x.id)

\* C7 as stated: every stored appliance has power_watts > 0.
C7_PowerIsPositive ==
    \A a \in appliances : a.power_watts > 0

\* C8: total_monthly_kwh of monthly_results is the sum of consumption_kwh over
\* all rows whose date lies in the month, and the sum of monthly_totals' values.
C8_TotalIsSumOfRows ==
    response.kind = "monthly_results" =>
        /\ response.total_kwh =
              SumKwh({dc \in consumptions : DateLike(dc.date, response.month)})
        /\ response.total_kwh = SumValues(response.monthly_totals)

\* C8 witness: a report over a month in which one name collects two rows.
C8_Witness ==
    /\ response.kind = "monthly_results"
    /\ response.total_kwh > 0
    /\ \E r1, r2 \in consumptions :
          /\ r1 # r2
          /\ DateLike(r1.date, response.month) /\ DateLike(r2.date, response.month)
          /\ r1.consumption_kwh > 0 /\ r2.consumption_kwh > 0
          /\ ApplianceName(r1.appliance_id) = ApplianceName(r2.appliance_id)

\* C9: every row's appliance_id is the id of a stored appliance, and no report
\* meets a missing appliance in its id-to-name lookup.
C9_RowsReferToStoredAppliances ==
    /\ \A dc \in consumptions : dc.appliance_id \in ApplianceIds
    /\ response.kind # "key_error"

\* C9 witness: the appliance with the largest id was deleted after rows were
\* logged; the rows left all belong to the appliance left.
C9_Witness ==
    /\ request = [kind |-> "delete_appliance", appliance_id |-> 2]
    /\ response = Redirect("appliance_setup")
    /\ ApplianceIds = {1}
    /\ consumptions # {}
    /\ \A dc \in consumptions : dc.appliance_id = 1

\* C10 as stated: when two daily_input POSTs for the same date and appliance
\* interleave step by step, once both have committed the pair has at most one
\* row.  (Stated for appliances of positive power.)
C10_OneRowAfterConcurrentPosts ==
    (AllIdle /\ PositivePowers) =>
        \A r1, r2 \in consumptions :
            (r1.date = r2.date /\ r1.appliance_id = r2.appliance_id) => r1 = r2

====
